---- MODULE Spec2Model ----
(***************************************************************************)
(* ServiceStatusChangedNotifier: a registry of per-service subscriptions   *)
(* to SC_EVENT_STATUS_CHANGE (Start / Stop and the destructor on the       *)
(* caller's thread), the static dispatch entry point NotifyCallbackFunc    *)
(* (run by the OS on a thread of its own), and the SecHost.dll wrappers    *)
(* that register and cancel a subscription.                                *)
(*                                                                         *)
(* The model follows the first definition of every function in             *)
(* ServiceStatusChangedNotifier.cpp (lines 35-249), the one the header     *)
(* declares; the file carries an older copy of the same functions below    *)
(* it (lines 251-434), whose functions the header does not declare.        *)
(***************************************************************************)
EXTENDS Integers, Sequences, FiniteSets, TLC

VARIABLES
    context_,           \* Context: notify_mask, action_function
    service_data_map_,  \* service name -> ServiceData
    pc,                 \* position of the caller's thread
    service_list,       \* argument of the Start in progress
    idx,                \* position of Start's loop in service_list
    remaining,          \* entries Stop's loop has still to visit
    call,               \* the public operation in progress or last returned
    opLog,              \* OS calls made by that operation, in order, and
                        \* the release of the members by the destructor
    scm_db,             \* services the service control manager can open
    osRegs,             \* registrations active at the OS
    lastDeliver         \* the last run of NotifyCallbackFunc, or the one
                        \* that has been entered and has still to run

vars == <<context_, service_data_map_, pc, service_list, idx, remaining, call,
          opLog, scm_db, osRegs, lastDeliver>>

----------------------------------------------------------------------------
(* Bounds of the model *)

MaxListLen == 2     \* longest service_list passed to Start
FlagBits == 2       \* bits of dwNotify / notify_mask that are modelled
MaxCalls == 2       \* public operations (Start, Stop) per run

(* Program constants *)

MAX_PATH == 260
ERROR_SUCCESS == 0
SERVICE_NOTIFY_STOPPED == 1

NameBufLen == MAX_PATH + 1      \* wchar_t service_name[MAX_PATH + 1]

(* Values *)

NULL == 0                       \* a null registration handle
NullCtx == "NULL"               \* a null Context pointer
ContextPtr == "context_"        \* &context_
NoName == <<>>                  \* a null pszServiceNames

Alpha == <<65>>
Beta == <<66, 66>>
Names == {Alpha, Beta}          \* service names (strings as code sequences)

Flags == 0 .. (2 ^ FlagBits - 1)

LastErrors == {126}             \* GetLastError() after a failed LoadLibrary
PrimitiveErrors == {5}          \* system errors the primitive reports

\* std::function values: empty, or a user callback that returns or throws
ActionFunctions == {"empty", "returns", "throws"}

ServiceLists == UNION {[1 .. n -> Names] : n \in 0 .. MaxListLen}

----------------------------------------------------------------------------
(* Pure helpers *)

RECURSIVE BitOr(_, _)
BitOr(a, b) ==
    IF a = 0 THEN b
    ELSE IF b = 0 THEN a
    ELSE (IF (a % 2 = 1) \/ (b % 2 = 1) THEN 1 ELSE 0)
         + 2 * BitOr(a \div 2, b \div 2)

Max(a, b) == IF a >= b THEN a ELSE b

\* A name buffer is kept as its written prefix; every element past it still
\* holds the L'\0' of the member initialiser.
EmptyNameBuf == <<>>

BufAt(buf, i) == IF i <= Len(buf) THEN buf[i] ELSE 0

\* CopyName copying one character too few.
M_CopyNameShort(buf, name) ==
    [i \in 1 .. Max(Len(buf), Len(name) - 1) |->
        IF i <= Len(name) - 1 THEN name[i] ELSE buf[i]]

\* std::wstring::copy(dest, count): writes count characters, no terminator.
CopyName(buf, name) ==
    [i \in 1 .. Max(Len(buf), Len(name)) |->
        IF i <= Len(name) THEN name[i] ELSE buf[i]]

\* Reading the buffer as a NUL-terminated string (std::wstring from wchar_t*).
CStr(buf) ==
    LET last == IF Len(buf) < NameBufLen THEN Len(buf) + 1 ELSE NameBufLen
        stops == {i \in 1 .. last : BufAt(buf, i) = 0}
        n == IF stops = {} THEN NameBufLen
             ELSE (CHOOSE i \in stops : \A j \in stops : i <= j) - 1
    IN  [i \in 1 .. n |-> buf[i]]

\* std::wstring::c_str() read as a C string: the characters before the first
\* L'\0' the string holds, all of them when it holds none.
c_str(name) ==
    LET stops == {i \in DOMAIN name : name[i] = 0}
    IN  IF stops = {} THEN name
        ELSE SubSeq(name, 1, (CHOOSE i \in stops : \A j \in stops : i <= j) - 1)

\* ServiceData as operator[] value-initialises it.
DefaultServiceData ==
    [service_name |-> EmptyNameBuf,
     notify_buffer |-> [pContext |-> NullCtx, pszServiceNames |-> NoName],
     registration |-> NULL,
     system_error_code |-> ERROR_SUCCESS]

\* std::memset(notify_buffer, 0, sizeof(SERVICE_NOTIFY))
ZeroedNotifyBuffer == [pContext |-> NullCtx, pszServiceNames |-> NoName]

Event(api, key, ok, val) == [api |-> api, key |-> key, ok |-> ok, val |-> val]

----------------------------------------------------------------------------
(* NotifyCallbackFunc *)

\* The condition of the older copy of NotifyCallbackFunc (line 285).
M_DispatchPredicateLegacy(dwNotify, context) ==
    /\ context.action_function # "empty"
    /\ dwNotify # 0
    /\ BitOr(dwNotify, context.notify_mask) = context.notify_mask

\* DispatchPredicate with the operands of the comparison exchanged: the mask
\* a subset of the flags.
M_DispatchPredicateSwapped(dwNotify, context) ==
    \/ /\ context.action_function # "empty"
       /\ BitOr(dwNotify, context.notify_mask) = dwNotify
    \/ dwNotify = 0

\* The condition guarding the call of action_function; && binds tighter
\* than ||.
DispatchPredicate(dwNotify, context) ==
    \/ /\ context.action_function # "empty"
       /\ BitOr(dwNotify, context.notify_mask) = context.notify_mask
    \/ dwNotify = 0

\* What pCallbackContext may point to: nothing, the notify_buffer of an entry
\* of the map, or a zeroed SERVICE_NOTIFY that belongs to no entry.
NullContextArg == [kind |-> "null", key |-> NoName]
ForeignContextArg == [kind |-> "foreign", key |-> NoName]
EntryContextArg(k) == [kind |-> "entry", key |-> k]

ContextArgs ==
    {NullContextArg, ForeignContextArg}
        \cup {EntryContextArg(k) : k \in DOMAIN service_data_map_}

\* static_cast<PSERVICE_NOTIFY>(pCallbackContext)
NotifyBufferOf(ctx) ==
    IF ctx.kind = "entry" THEN service_data_map_[ctx.key].notify_buffer
    ELSE ZeroedNotifyBuffer

\* ResolvesContext without the check of pContext.
M_ResolvesContextBufferOnly(ctx) == ctx.kind # "null"

\* The two null checks of lines 37-39: the buffer, then its pContext.
ResolvesContext(ctx) ==
    ctx.kind # "null" /\ NotifyBufferOf(ctx).pContext # NullCtx

\* The string action_function receives: pszServiceNames read as a C string
\* (Start never leaves it null in a buffer whose pContext is set).
NameArgument(notify_buffer) ==
    IF notify_buffer.pszServiceNames \in DOMAIN service_data_map_
    THEN CStr(service_data_map_[notify_buffer.pszServiceNames].service_name)
    ELSE <<>>

\* One run of NotifyCallbackFunc: the calls of the user callback it makes and
\* how it ends. Nothing in it catches: calling an empty std::function throws
\* std::bad_function_call, and whatever the user callback throws propagates.
NotifyCallbackFunc(dwNotify, ctx) ==
    LET notify_buffer == NotifyBufferOf(ctx)
        resolved == ResolvesContext(ctx)
        dispatch == resolved /\ DispatchPredicate(dwNotify, context_)
        fn == context_.action_function
    IN  [dwNotify |-> dwNotify,
         ctx |-> ctx,
         resolved |-> resolved,
         notify_mask |-> IF resolved THEN context_.notify_mask ELSE 0,
         action_function |-> IF resolved THEN fn ELSE "empty",
         calls |-> IF dispatch /\ fn # "empty"
                   THEN <<[service_name |-> NameArgument(notify_buffer),
                           current_state |-> dwNotify]>>
                   ELSE <<>>,
         outcome |-> IF dispatch /\ fn # "returns" THEN "escaped"
                     ELSE "returned"]

NoDeliver ==
    [dwNotify |-> 0, ctx |-> NullContextArg, resolved |-> FALSE,
     notify_mask |-> 0, action_function |-> "empty", calls |-> <<>>,
     outcome |-> "none"]

Deliver(dwNotify, ctx) ==
    /\ lastDeliver' = NotifyCallbackFunc(dwNotify, ctx)
    /\ UNCHANGED <<context_, service_data_map_, pc, service_list, idx,
                   remaining, call, opLog, scm_db, osRegs>>

----------------------------------------------------------------------------
(* SecHost.dll wrappers *)

\* What the platform does during one wrapper call: whether LoadLibrary and
\* GetProcAddress succeed, the last error after a failed load, the status the
\* primitive reports.
WrapperEnvs ==
    [load : BOOLEAN, sym : BOOLEAN, lastError : LastErrors,
     status : {ERROR_SUCCESS} \cup PrimitiveErrors]

\* A raw HINSTANCE in place of ScopedDllHandle, released only after the
\* primitive has been called.
M_DllScopeReleasedAfterCall(env, inside) ==
    <<Event("LoadLibrary", NoName, env.load,
            IF env.load THEN 0 ELSE env.lastError)>>
        \o inside
        \o (IF Len(inside) = 2 THEN <<Event("FreeLibrary", NoName, TRUE, 0)>>
            ELSE <<>>)

\* ScopedDllHandle: LoadLibrary, and the deleter's FreeLibrary at scope exit
\* when the handle is not null. A LoadLibrary that fails sets the thread's
\* last error, which the event carries.
DllScope(env, inside) ==
    <<Event("LoadLibrary", NoName, env.load,
            IF env.load THEN 0 ELSE env.lastError)>>
        \o inside
        \o (IF env.load THEN <<Event("FreeLibrary", NoName, TRUE, 0)>>
            ELSE <<>>)

\* return_value without the else branch of line 209.
M_return_valueNoLastError(env) ==
    IF env.load /\ env.sym THEN env.status ELSE 0

\* Lines 180, 205 and 209: return_value starts at 0 and is assigned the
\* primitive's status when it is called, GetLastError() when the library
\* does not load.
return_value(env) ==
    IF ~env.load THEN env.lastError
    ELSE IF env.sym THEN env.status
    ELSE 0

\* SubscribeServiceChangeNotificationsWrapper; key names the entry whose
\* notify_buffer is pCallbackContext, fresh is the handle the primitive
\* writes on success.
SubscribeServiceChangeNotificationsWrapper(key, env, fresh) ==
    LET called == env.load /\ env.sym
        granted == called /\ env.status = ERROR_SUCCESS
        inside ==
            IF ~env.load THEN <<>>
            ELSE <<Event("GetProcAddress", NoName, env.sym, 0)>>
                 \o (IF env.sym
                     THEN <<Event("SubscribeServiceChangeNotifications", key,
                                  env.status = ERROR_SUCCESS, env.status)>>
                     ELSE <<>>)
    IN  [return_value |-> return_value(env),
         subscription |-> IF granted THEN fresh ELSE NULL,
         granted |-> granted,
         log |-> DllScope(env, inside)]

\* UnsubscribeServiceChangeNotificationsWrapper
UnsubscribeServiceChangeNotificationsWrapper(pSubscription, env) ==
    LET called == env.load /\ env.sym
        inside ==
            IF ~env.load THEN <<>>
            ELSE <<Event("GetProcAddress", NoName, env.sym, 0)>>
                 \o (IF env.sym
                     THEN <<Event("UnsubscribeServiceChangeNotifications",
                                  NoName, TRUE, pSubscription)>>
                     ELSE <<>>)
    IN  [cancelled |-> called,
         log |-> DllScope(env, inside)]

----------------------------------------------------------------------------
(* Start *)

\* service_data_map_[key]: the entry, inserted value-initialised when absent.
EntryAt(map, key) ==
    IF key \in DOMAIN map THEN map[key] ELSE DefaultServiceData

\* PrepareEntry that clears the notify buffer last, after writing its
\* pointers.
M_PrepareEntryClearedLast(entry, service_name) ==
    [entry EXCEPT !.service_name = CopyName(@, service_name),
                  !.notify_buffer = ZeroedNotifyBuffer]

\* Lines 109-117: the name is copied into the entry's buffer, the notify
\* buffer is cleared and then pointed at the context and at that name buffer.
PrepareEntry(entry, service_name) ==
    LET named == [entry EXCEPT !.service_name = CopyName(@, service_name)]
        cleared == [named EXCEPT !.notify_buffer = ZeroedNotifyBuffer]
    IN  [cleared EXCEPT !.notify_buffer.pContext = ContextPtr,
                        !.notify_buffer.pszServiceNames = service_name]

\* Lines 120-124: the wrapper writes *pSubscription (null first, the handle
\* on success) and its return value becomes system_error_code.
StoreSubscription(entry, result) ==
    [entry EXCEPT !.registration = result.subscription,
                  !.system_error_code = result.return_value]

\* MapWith on a map that Start has emptied first: only this entry is left.
M_MapWithRebuilt(map, key, entry) == [k \in {key} |-> entry]

\* MapWith on a map whose other entries Start has given up first, as Stop
\* would.
M_MapWithOthersStopped(map, key, entry) ==
    [k \in DOMAIN map \cup {key} |->
        IF k = key THEN entry ELSE [map[k] EXCEPT !.registration = NULL]]

\* Lines 109-124: service_data_map_[service_name], the entry of key replaced or
\* inserted and every other entry left as it is.
MapWith(map, key, entry) ==
    [k \in DOMAIN map \cup {key} |-> IF k = key THEN entry ELSE map[k]]

\* The handle the primitive writes on success: one no active registration
\* has.
FreshHandle ==
    LET used == {r.handle : r \in osRegs}
    IN  CHOOSE h \in 1 .. (Cardinality(osRegs) + 1) :
            /\ h \notin used
            /\ \A g \in 1 .. (h - 1) : g \in used

\* OpenService with its result not checked.
M_OpenServiceUnchecked(service_name) == TRUE

\* OpenService is given service_name.c_str() and succeeds for the services
\* the SCM database holds.
OpenService(service_name) == c_str(service_name) \in scm_db

\* AfterOpenSCManager with the result of OpenSCManager not checked.
M_AfterOpenSCManagerUnchecked(scmOk) == "start"

\* Lines 99-102 and 127: the loop runs only under an open SCM handle.
AfterOpenSCManager(scmOk) == IF scmOk THEN "start" ELSE "idle"

\* Lines 87-102: the context is written, then the SCM is opened; when that
\* fails Start returns at once.
StartBegin(list, notify_mask, action_function, scmOk) ==
    /\ pc = "idle"
    /\ context_' = [notify_mask |-> notify_mask,
                    action_function |-> action_function]
    /\ service_list' = list
    /\ idx' = 1
    /\ call' = [no |-> call.no + 1, op |-> "Start",
                fresh |-> DOMAIN service_data_map_ = {}]
    /\ opLog' = <<Event("OpenSCManager", NoName, scmOk, 0)>>
    /\ pc' = AfterOpenSCManager(scmOk)
    /\ UNCHANGED <<service_data_map_, remaining, scm_db, osRegs,
                   lastDeliver>>

\* The loop taking the names from the back of the list.
M_ServiceNameAtReversed(list, i) == list[Len(list) + 1 - i]

\* Line 104: the range-for visits the vector front to back.
ServiceNameAt(list, i) == list[i]

\* Lines 104-126, one iteration of the loop over service_list.
StartService(env) ==
    /\ pc = "start"
    /\ idx <= Len(service_list)
    /\ LET service_name == ServiceNameAt(service_list, idx)
           opened == OpenService(service_name)
           result == SubscribeServiceChangeNotificationsWrapper(
                         service_name, env, FreshHandle)
           entry == StoreSubscription(
                        PrepareEntry(EntryAt(service_data_map_, service_name),
                                     service_name),
                        result)
       IN  /\ idx' = idx + 1
           /\ IF opened
              THEN /\ service_data_map_' =
                          MapWith(service_data_map_, service_name, entry)
                   /\ opLog' = opLog
                          \o <<Event("OpenService", service_name, TRUE, 0)>>
                          \o result.log
                   /\ osRegs' =
                          IF result.granted
                          THEN osRegs \cup {[handle |-> result.subscription,
                                             ctx |-> service_name]}
                          ELSE osRegs
              ELSE /\ opLog' = opLog
                          \o <<Event("OpenService", service_name, FALSE, 0)>>
                   /\ UNCHANGED <<service_data_map_, osRegs>>
    /\ UNCHANGED <<context_, pc, service_list, remaining, call, scm_db,
                   lastDeliver>>

\* Lines 126-128: the loop is over, the SCM handle is closed, Start returns.
StartReturn ==
    /\ pc = "start"
    /\ idx > Len(service_list)
    /\ pc' = "idle"
    /\ UNCHANGED <<context_, service_data_map_, service_list, idx, remaining,
                   call, opLog, scm_db, osRegs, lastDeliver>>

----------------------------------------------------------------------------
(* Stop *)

\* Line 133: the loop over the values of service_data_map_ begins.
StopBegin ==
    /\ pc = "idle"
    /\ pc' = "stop"
    /\ remaining' = DOMAIN service_data_map_
    /\ call' = [no |-> call.no + 1, op |-> "Stop",
                fresh |-> DOMAIN service_data_map_ = {}]
    /\ opLog' = <<>>
    /\ UNCHANGED <<context_, service_data_map_, service_list, idx, scm_db,
                   osRegs, lastDeliver>>

\* StopValue leaving the handle in the entry.
M_StopValueKeepsHandle(value) == value

\* StopValue assigning a fresh ServiceData to the entry.
M_StopValueResetsEntry(value) == DefaultServiceData

\* Lines 134-137.
StopValue(value) == [value EXCEPT !.registration = NULL]

\* Stop's loop erasing the entry it has visited.
M_StopStorageErases(map, key) ==
    [k \in DOMAIN map \ {key} |-> map[k]]

\* Line 133: value is a reference to the entry inside the map, which is
\* written in place; no entry is inserted, erased or moved.
StopStorage(map, key) == [map EXCEPT ![key] = StopValue(map[key])]

\* Stop's loop without the test of the handle.
M_HasRegistrationUnchecked(value) == TRUE

\* Line 134: if (value.registration)
HasRegistration(value) == value.registration # NULL

\* One iteration; the order of an unordered_map is unspecified.
StopEntry(key, env) ==
    /\ pc = "stop"
    /\ key \in remaining
    /\ remaining' = remaining \ {key}
    /\ LET value == service_data_map_[key]
           result == UnsubscribeServiceChangeNotificationsWrapper(
                         value.registration, env)
       IN  IF HasRegistration(value)
           THEN /\ service_data_map_' = StopStorage(service_data_map_, key)
                /\ opLog' = opLog \o result.log
                /\ osRegs' =
                       IF result.cancelled
                       THEN {r \in osRegs : r.handle # value.registration}
                       ELSE osRegs
           ELSE UNCHANGED <<service_data_map_, opLog, osRegs>>
    /\ UNCHANGED <<context_, pc, service_list, idx, call, scm_db,
                   lastDeliver>>

\* Stop returns, to its caller or into the destructor that called it.
StopReturn ==
    /\ pc = "stop"
    /\ remaining = {}
    /\ pc' = (IF call.op = "~ServiceStatusChangedNotifier" THEN "release"
              ELSE "idle")
    /\ UNCHANGED <<context_, service_data_map_, service_list, idx, remaining,
                   call, opLog, scm_db, osRegs, lastDeliver>>

----------------------------------------------------------------------------
(* The destructor *)

\* A defaulted destructor: the members are released at once.
M_DestructorBodyDefaulted == "release"

\* part_000 line 41: the destructor's body is { Stop(); }.
DestructorBody == "stop"

\* The registry is destroyed while no operation on it is running.
DestructorBegin ==
    /\ pc = "idle"
    /\ pc' = DestructorBody
    /\ remaining' = DOMAIN service_data_map_
    /\ call' = [no |-> call.no + 1, op |-> "~ServiceStatusChangedNotifier",
                fresh |-> DOMAIN service_data_map_ = {}]
    /\ opLog' = <<>>
    /\ UNCHANGED <<context_, service_data_map_, service_list, idx, scm_db,
                   osRegs, lastDeliver>>

\* After the body the members are destroyed: service_data_map_ with every
\* entry, then context_. Nothing is cancelled here, so a registration that is
\* still active at the OS keeps its pointers into the released entries.
ReleaseMembers ==
    /\ pc = "release"
    /\ pc' = "destroyed"
    /\ service_data_map_' = <<>>
    /\ context_' = [notify_mask |-> 0, action_function |-> "empty"]
    /\ opLog' = Append(opLog, Event("release", NoName, TRUE, 0))
    /\ UNCHANGED <<service_list, idx, remaining, call, scm_db, osRegs,
                   lastDeliver>>

----------------------------------------------------------------------------
(* The OS thread *)

\* pCallbackContext points into storage that has been released.
Dangling(ctx) ==
    ctx.kind = "entry" /\ ctx.key \notin DOMAIN service_data_map_

\* NotifyCallbackFunc has been entered with these arguments and has read
\* nothing yet.
Running(dwNotify, ctx) ==
    [dwNotify |-> dwNotify, ctx |-> ctx, resolved |-> FALSE,
     notify_mask |-> 0, action_function |-> "empty", calls |-> <<>>,
     outcome |-> "running"]

\* A run of NotifyCallbackFunc that reads released storage: its behaviour is
\* undefined.
Undefined(dwNotify, ctx) ==
    [Running(dwNotify, ctx) EXCEPT !.outcome = "undefined"]

\* The OS calls NotifyCallbackFunc for a registration that is active, with
\* the pointer that registration was made with (line 119), on a thread of
\* its own.
DeliverBegin(dwNotify, r) ==
    /\ r \in osRegs
    /\ lastDeliver.outcome # "running"
    /\ lastDeliver' = Running(dwNotify, EntryContextArg(r.ctx))
    /\ UNCHANGED <<context_, service_data_map_, pc, service_list, idx,
                   remaining, call, opLog, scm_db, osRegs>>

\* Lines 37-49 run, at any later point of the caller's thread.
DeliverRun ==
    /\ lastDeliver.outcome = "running"
    /\ lastDeliver' =
           IF Dangling(lastDeliver.ctx)
           THEN Undefined(lastDeliver.dwNotify, lastDeliver.ctx)
           ELSE NotifyCallbackFunc(lastDeliver.dwNotify, lastDeliver.ctx)
    /\ UNCHANGED <<context_, service_data_map_, pc, service_list, idx,
                   remaining, call, opLog, scm_db, osRegs>>

----------------------------------------------------------------------------
(* The system *)

Init ==
    /\ context_ = [notify_mask |-> 0, action_function |-> "empty"]
    /\ service_data_map_ = <<>>
    /\ pc = "idle"
    /\ service_list = <<>>
    /\ idx = 1
    /\ remaining = {}
    /\ call = [no |-> 0, op |-> "none", fresh |-> TRUE]
    /\ opLog = <<>>
    /\ scm_db \in SUBSET Names
    /\ osRegs = {}
    /\ lastDeliver = NoDeliver

\* What main.cpp passes to Start, and a Start without a callback. Start and
\* Stop write the context and never read it.
LifecycleContexts ==
    {[notify_mask |-> SERVICE_NOTIFY_STOPPED, action_function |-> "returns"],
     [notify_mask |-> 0, action_function |-> "empty"]}

\* The registry's life on the caller's thread: any MaxCalls calls of Start
\* and Stop, in any order, and its destruction at any point between calls.
Next ==
    \/ /\ call.no < MaxCalls
       /\ \E list \in ServiceLists, c \in LifecycleContexts, scmOk \in BOOLEAN :
            StartBegin(list, c.notify_mask, c.action_function, scmOk)
    \/ \E env \in WrapperEnvs : StartService(env)
    \/ StartReturn
    \/ call.no < MaxCalls /\ StopBegin
    \/ \E key \in remaining, env \in WrapperEnvs : StopEntry(key, env)
    \/ StopReturn
    \/ DestructorBegin
    \/ ReleaseMembers

Spec == Init /\ [][Next]_vars

\* The lists that name no service twice: repeating a name rewrites the same
\* entry with the same name and pointers.
DistinctLists ==
    {list \in UNION {[1 .. n -> Names] : n \in 0 .. Cardinality(Names)} :
        \A i, j \in DOMAIN list : list[i] = list[j] => i = j}

\* Dispatch: the registry's first Start, with every mask and callback, and
\* NotifyCallbackFunc run at any point before, during and after it.
NextDispatch ==
    \/ /\ call.no = 0
       /\ \E list \in DistinctLists, m \in Flags, f \in ActionFunctions,
             scmOk \in BOOLEAN :
            StartBegin(list, m, f, scmOk)
    \/ \E env \in WrapperEnvs : StartService(env)
    \/ StartReturn
    \/ \E dwNotify \in Flags, ctx \in ContextArgs : Deliver(dwNotify, ctx)

SpecDispatch == Init /\ [][NextDispatch]_vars

\* Two threads: the caller's, with any MaxCalls calls of Start and Stop on
\* lists without repetition, and the OS's, delivering the status main.cpp
\* registers for to any active registration at any point of the caller's
\* operations.
NextConcurrent ==
    \/ /\ call.no < MaxCalls
       /\ \E list \in DistinctLists, c \in LifecycleContexts,
             scmOk \in BOOLEAN :
            StartBegin(list, c.notify_mask, c.action_function, scmOk)
    \/ \E env \in WrapperEnvs : StartService(env)
    \/ StartReturn
    \/ call.no < MaxCalls /\ StopBegin
    \/ \E key \in remaining, env \in WrapperEnvs : StopEntry(key, env)
    \/ StopReturn
    \/ \E r \in osRegs : DeliverBegin(SERVICE_NOTIFY_STOPPED, r)
    \/ DeliverRun

SpecConcurrent == Init /\ [][NextConcurrent]_vars

\* Names around the size of the name buffer: one character, MAX_PATH,
\* MAX_PATH + 1 and MAX_PATH + 2 characters, and a std::wstring that holds
\* L"C", an L'\0' and MAX_PATH more characters.
NameOfLength(n) == [i \in 1 .. n |-> 67]

CopyNames ==
    {NameOfLength(n) : n \in {1, MAX_PATH, MAX_PATH + 1, MAX_PATH + 2}}
        \cup {<<67, 0>> \o NameOfLength(MAX_PATH)}

\* A fresh registry, the SCM holding any of the services those names name.
InitCopy ==
    /\ context_ = [notify_mask |-> 0, action_function |-> "empty"]
    /\ service_data_map_ = <<>>
    /\ pc = "idle"
    /\ service_list = <<>>
    /\ idx = 1
    /\ remaining = {}
    /\ call = [no |-> 0, op |-> "none", fresh |-> TRUE]
    /\ opLog = <<>>
    /\ scm_db \in SUBSET {c_str(name) : name \in CopyNames}
    /\ osRegs = {}
    /\ lastDeliver = NoDeliver

\* The registry's first Start on a list of at most one of those names, and
\* the notification main.cpp registers for, run for an entry at any point.
NextCopy ==
    \/ /\ call.no = 0
       /\ \E list \in {<<>>} \cup {<<name>> : name \in CopyNames},
             c \in LifecycleContexts, scmOk \in BOOLEAN :
            StartBegin(list, c.notify_mask, c.action_function, scmOk)
    \/ \E env \in WrapperEnvs : StartService(env)
    \/ StartReturn
    \/ \E k \in DOMAIN service_data_map_ :
           Deliver(SERVICE_NOTIFY_STOPPED, EntryContextArg(k))

SpecCopy == InitCopy /\ [][NextCopy]_vars

----------------------------------------------------------------------------
(* Properties of NotifyCallbackFunc, under SpecDispatch *)

Bit(x, i) == (x \div (2 ^ i)) % 2

\* Every bit set in f is set in m.
IsBitSubset(f, m) == \A i \in 0 .. FlagBits : Bit(f, i) = 1 => Bit(m, i) = 1

Delivered == lastDeliver.outcome # "none"

\* A run whose context was the notify_buffer of an entry and whose Context
\* held a callback.
DeliveredToEntryWithCallback ==
    /\ Delivered
    /\ lastDeliver.ctx.kind = "entry"
    /\ lastDeliver.resolved
    /\ lastDeliver.action_function # "empty"

\* C1: with a valid entry context and a callback present, NotifyCallbackFunc
\* calls the callback if and only if the flags are zero or a bitwise subset
\* of the mask.
C1_DispatchIffSubset ==
    DeliveredToEntryWithCallback =>
        (lastDeliver.calls # <<>>
            <=> \/ lastDeliver.dwNotify = 0
                \/ IsBitSubset(lastDeliver.dwNotify, lastDeliver.notify_mask))

\* C1 witness: nonzero flags, a proper subset of the mask, were dispatched,
\* and flags outside the mask can be told from them.
C1_Witness ==
    /\ DeliveredToEntryWithCallback
    /\ lastDeliver.dwNotify = 1
    /\ lastDeliver.notify_mask = 3
    /\ lastDeliver.calls # <<>>

\* C2: with an empty callback NotifyCallbackFunc calls nothing and returns
\* normally, whatever the flags are, zero included.
C2_EmptyCallbackReturns ==
    (Delivered /\ lastDeliver.resolved /\ lastDeliver.action_function = "empty")
        => (lastDeliver.calls = <<>> /\ lastDeliver.outcome = "returned")

\* C3: zero flags, a valid entry context and a callback present: the callback
\* is called exactly once, with that entry's service name and 0, whatever the
\* mask is.
C3_ZeroFlagsDispatched ==
    (DeliveredToEntryWithCallback /\ lastDeliver.dwNotify = 0)
        => lastDeliver.calls =
               <<[service_name |-> lastDeliver.ctx.key, current_state |-> 0]>>

\* C3 witness: zero flags were delivered under a mask of 0.
C3_Witness ==
    /\ DeliveredToEntryWithCallback
    /\ lastDeliver.dwNotify = 0
    /\ lastDeliver.notify_mask = 0
    /\ Len(lastDeliver.calls) = 1

\* C4: a run with a null context, or with a buffer whose pContext is null,
\* calls nothing, returns normally and changes nothing of the registry.
C4_NullContextDropped ==
    [][(lastDeliver' # lastDeliver
            /\ lastDeliver'.ctx.kind \in {"null", "foreign"})
        => /\ lastDeliver'.calls = <<>>
           /\ lastDeliver'.outcome = "returned"
           /\ UNCHANGED <<context_, service_data_map_, osRegs>>]_vars

\* C4 witness: a buffer with a null pContext was delivered with zero flags
\* to a registry that holds a callback and an entry.
C4_Witness ==
    /\ Delivered
    /\ lastDeliver.ctx.kind = "foreign"
    /\ lastDeliver.dwNotify = 0
    /\ context_.action_function = "returns"
    /\ DOMAIN service_data_map_ # {}

\* C5: every call of the callback carries the name of the entry whose
\* notify_buffer was the context, and the flags as they were received.
C5_CallbackArguments ==
    lastDeliver.calls # <<>> =>
        /\ lastDeliver.ctx.kind = "entry"
        /\ lastDeliver.calls =
               <<[service_name |-> lastDeliver.ctx.key,
                  current_state |-> lastDeliver.dwNotify]>>

\* C5 witness: a registry with two entries dispatched nonzero flags for the
\* second of them.
C5_Witness ==
    /\ DOMAIN service_data_map_ = {Alpha, Beta}
    /\ lastDeliver.ctx = EntryContextArg(Beta)
    /\ lastDeliver.dwNotify = 2
    /\ lastDeliver.calls # <<>>

\* C6: no failure leaves NotifyCallbackFunc: every run returns normally.
C6_DeliverReturnsNormally == lastDeliver.outcome # "escaped"

----------------------------------------------------------------------------
(* Properties of Start and Stop, under Spec *)

Range(seq) == {seq[i] : i \in DOMAIN seq}

IsOpenService(e) == e.api = "OpenService"

\* The OpenService calls of the operation, in order.
OpenEvents == SelectSeq(opLog, IsOpenService)

\* Start has returned, and the registry held no entry when it was called.
FreshStartReturned == pc = "idle" /\ call.op = "Start" /\ call.fresh

\* C7: a Start on a fresh registry runs to its return; it tries every name
\* of the list in turn whatever became of the others; a name that cannot be
\* opened has no entry afterwards, and a name that can has an entry and had
\* the register wrapper called for each of its opens.
C7_PartialSuccess ==
    /\ (pc = "start" /\ call.fresh) =>
            ENABLED (StartReturn \/ \E env \in WrapperEnvs : StartService(env))
    /\ (FreshStartReturned /\ opLog[1].ok) =>
        /\ [i \in 1 .. Len(OpenEvents) |-> OpenEvents[i].key] = service_list
        /\ \A name \in Range(service_list) :
            IF name \in scm_db
            THEN /\ name \in DOMAIN service_data_map_
                 /\ \A i \in DOMAIN opLog :
                        (IsOpenService(opLog[i]) /\ opLog[i].key = name) =>
                            /\ opLog[i].ok
                            /\ i < Len(opLog)
                            /\ opLog[i + 1].api = "LoadLibrary"
            ELSE /\ name \notin DOMAIN service_data_map_
                 /\ \A i \in DOMAIN opLog :
                        (IsOpenService(opLog[i]) /\ opLog[i].key = name) =>
                            ~opLog[i].ok

\* C7 witness: a fresh Start returned from a list whose first name could not
\* be opened and whose second could.
C7_Witness ==
    /\ FreshStartReturned
    /\ service_list = <<Beta, Alpha>>
    /\ scm_db = {Alpha}
    /\ DOMAIN service_data_map_ = {Alpha}

\* C8: a Start whose OpenSCManager fails returns at once: it makes no other
\* OS call, and entries and registrations are what they were.
C8_ScmFailureCreatesNothing ==
    [][(call'.no # call.no /\ call'.op = "Start" /\ ~opLog'[1].ok)
        => /\ pc' = "idle"
           /\ Len(opLog') = 1
           /\ service_data_map_' = service_data_map_
           /\ osRegs' = osRegs]_vars

\* C8 witness: a Start that could not open the SCM has returned.
C8_Witness ==
    /\ pc = "idle"
    /\ call.op = "Start"
    /\ ~opLog[1].ok
    /\ service_list # <<>>

\* The non-null handles the entries hold.
HeldHandles ==
    {service_data_map_[k].registration : k \in DOMAIN service_data_map_}
        \ {NULL}

\* The handles of the registrations active at the OS.
ActiveHandles == {r.handle : r \in osRegs}

\* C9: in every state an entry's handle is non-null exactly when a
\* registration for that entry is active at the OS, and the handles held by
\* entries are the handles of the active registrations.
C9_HandleIffRegistration ==
    /\ \A k \in DOMAIN service_data_map_ :
            service_data_map_[k].registration # NULL
                <=> \E r \in osRegs : r.ctx = k
    /\ HeldHandles = ActiveHandles

\* C10: once Stop has returned every entry's handle is null and no
\* registration is active at the OS.
C10_StopLeavesNoRegistration ==
    (pc = "idle" /\ call.op = "Stop") =>
        (HeldHandles = {} /\ osRegs = {})

----------------------------------------------------------------------------
(* Stop, its repetition and the destructor, under Spec *)

IsCancel(e) == e.api = "UnsubscribeServiceChangeNotifications"

IsLoadLibrary(e) == e.api = "LoadLibrary"

IsRegister(e) == e.api = "SubscribeServiceChangeNotifications"

\* A step of a Stop (its first step included) taken while no entry holds a
\* handle.
StopStepWithoutHandles == call'.op = "Stop" /\ HeldHandles = {}

InDestructor == call.op = "~ServiceStatusChangedNotifier"

\* The calls of the cancel wrapper in a log of Stop: each one begins by
\* loading the library.
CancelWrapperCalls(log) == Len(SelectSeq(log, IsLoadLibrary))

\* C12: the destructor makes the cancel calls of Stop: one call of the
\* cancel wrapper for each handle an entry gives up, every handle given up
\* before the members are released, the release the last step and no cancel
\* call in it; a destructor that finds no handle (after a Stop) makes none.
C12_DestructorStops ==
    /\ [](pc = "release" => HeldHandles = {})
    /\ []((pc = "destroyed" /\ opLog # <<>>) =>
              /\ opLog[Len(opLog)].api = "release"
              /\ \A i \in 1 .. Len(opLog) - 1 : opLog[i].api # "release")
    /\ [][(InDestructor /\ pc = "stop") =>
            /\ CancelWrapperCalls(opLog') - CancelWrapperCalls(opLog)
                   = Cardinality(HeldHandles) - Cardinality(HeldHandles')
            /\ HeldHandles' \subseteq HeldHandles]_vars
    /\ [][(call'.op = "~ServiceStatusChangedNotifier" /\ HeldHandles = {}) =>
            CancelWrapperCalls(opLog') =
                (IF call'.no # call.no THEN 0
                 ELSE CancelWrapperCalls(opLog))]_vars
    /\ [][pc' = "destroyed" =>
            /\ pc = "release"
            /\ CancelWrapperCalls(opLog') = CancelWrapperCalls(opLog)
            /\ service_data_map_' = <<>>]_vars

\* C12 witness: a registry destroyed without a Stop while an entry held a
\* handle: the cancel primitive was called and the members released after it.
C12_Witness ==
    /\ pc = "destroyed"
    /\ call.no = 2
    /\ \E i \in DOMAIN opLog : IsCancel(opLog[i]) /\ opLog[i].ok
    /\ opLog[Len(opLog)].api = "release"

\* The step is an iteration of Stop's loop that calls the cancel wrapper.
CallsCancelWrapper ==
    /\ pc = "stop"
    /\ CancelWrapperCalls(opLog') > CancelWrapperCalls(opLog)

\* C23: every call of the cancel wrapper, in Stop or in the destructor, is
\* for the entry the loop visits and passes that entry's handle, which is not
\* null and belongs to a registration made for that entry and still active;
\* when the call reaches the primitive, that handle is what it passes.
C23_CancelOnlyHeldHandles ==
    [][CallsCancelWrapper =>
          \E k \in remaining \ remaining' :
              LET handle == service_data_map_[k].registration
              IN  /\ handle # NULL
                  /\ [handle |-> handle, ctx |-> k] \in osRegs
                  /\ \A i \in (DOMAIN opLog') \ (DOMAIN opLog) :
                         IsCancel(opLog'[i]) => opLog'[i].val = handle]_vars

\* C23 witness: a Stop has returned that passed the handles of two entries
\* to the cancel primitive; no registration is left.
C23_Witness ==
    /\ pc = "idle"
    /\ call.op = "Stop"
    /\ Cardinality({i \in DOMAIN opLog : IsCancel(opLog[i])}) = 2
    /\ osRegs = {}

IsFreeLibrary(e) == e.api = "FreeLibrary"

\* The library references the first n calls of a log leave held: successful
\* loads less releases.
LibraryHeld(log, n) ==
    Cardinality({i \in 1 .. n : IsLoadLibrary(log[i]) /\ log[i].ok})
        - Cardinality({i \in 1 .. n : IsFreeLibrary(log[i])})

\* C24: between wrapper calls no library reference is held; inside one, at
\* most one; a load is made only when none is held, what follows a successful
\* load up to its release is the symbol lookup and the primitive only, and a
\* failed load is followed by no lookup and no release.
C24_LibraryReleasedPerCall ==
    /\ LibraryHeld(opLog, Len(opLog)) = 0
    /\ \A n \in DOMAIN opLog :
           /\ LibraryHeld(opLog, n) \in {0, 1}
           /\ IsLoadLibrary(opLog[n]) => LibraryHeld(opLog, n - 1) = 0
           /\ LibraryHeld(opLog, n - 1) = 0 =>
                  opLog[n].api \in {"OpenSCManager", "OpenService",
                                    "LoadLibrary", "release"}
           /\ LibraryHeld(opLog, n - 1) = 1 =>
                  opLog[n].api \in {"GetProcAddress", "FreeLibrary",
                                    "SubscribeServiceChangeNotifications",
                                    "UnsubscribeServiceChangeNotifications"}

\* C24 witness: a Start whose register call loaded the library and could not
\* resolve the symbol, and whose next register call reached the primitive,
\* which failed: both released the library.
C24_Witness ==
    /\ call.op = "Start"
    /\ Cardinality({i \in DOMAIN opLog : IsFreeLibrary(opLog[i])}) = 2
    /\ \E i \in DOMAIN opLog :
           /\ opLog[i].api = "GetProcAddress" /\ ~opLog[i].ok
           /\ IsFreeLibrary(opLog[i + 1])
    /\ \E i \in DOMAIN opLog :
           /\ IsRegister(opLog[i]) /\ ~opLog[i].ok
           /\ IsFreeLibrary(opLog[i + 1])

\* An entry without its handle.
BesidesHandle(value) ==
    [service_name |-> value.service_name,
     notify_buffer |-> value.notify_buffer,
     system_error_code |-> value.system_error_code]

\* C25: no step of a Stop adds or removes an entry, changes an entry's name
\* buffer, notification buffer or stored error code, or changes context_;
\* a handle it changes becomes null.
C25_StopChangesHandlesOnly ==
    [][call'.op = "Stop" =>
          /\ DOMAIN service_data_map_' = DOMAIN service_data_map_
          /\ \A k \in DOMAIN service_data_map_ :
                 /\ BesidesHandle(service_data_map_'[k])
                        = BesidesHandle(service_data_map_[k])
                 /\ service_data_map_'[k].registration
                        \in {service_data_map_[k].registration, NULL}
          /\ context_' = context_]_vars

\* C25 witness: a Stop has returned that gave up a handle; the entry still
\* holds its name and pointers, and another entry still holds the error code
\* its registration failed with.
C25_Witness ==
    /\ pc = "idle"
    /\ call.op = "Stop"
    /\ \E i \in DOMAIN opLog : IsCancel(opLog[i])
    /\ \E k \in DOMAIN service_data_map_ :
           service_data_map_[k].system_error_code \in PrimitiveErrors
    /\ \A k \in DOMAIN service_data_map_ :
           /\ service_data_map_[k].registration = NULL
           /\ service_data_map_[k].notify_buffer.pContext = ContextPtr

----------------------------------------------------------------------------
(* Entries and registrations across calls, under Spec *)

\* The step is the iteration of Start's loop that opened the service named
\* key: it copies the name into the entry's name buffer (lines 109-110),
\* zeroes its notify_buffer (line 114) and writes the buffer's pointers
\* (lines 115-117).
RewritesEntry(key) ==
    /\ call' = call
    /\ Len(opLog') > Len(opLog)
    /\ LET e == opLog'[Len(opLog) + 1]
       IN  e.api = "OpenService" /\ e.key = key /\ e.ok

\* C13: while a registration is active at the OS, the entry it points at
\* stays in the registry's storage and no step rewrites that entry's name
\* buffer or notification buffer.
C13_BufferStableWhileRegistered ==
    [][\A r \in osRegs :
           /\ r.ctx \in DOMAIN service_data_map_'
           /\ ~RewritesEntry(r.ctx)]_vars

\* The names whose service the Start that ran last opened.
OpenedNames ==
    {opLog[i].key :
        i \in {j \in DOMAIN opLog : IsOpenService(opLog[j]) /\ opLog[j].ok}}

\* C16 as stated: after a Start on a registry that already had entries, the
\* registry holds entries only for the names that call processed.
C16_RestartRebuilds ==
    (pc = "idle" /\ call.op = "Start" /\ ~call.fresh) =>
        DOMAIN service_data_map_ \subseteq OpenedNames

\* C16 amended: Start merges. No step of a Start removes an entry, and a
\* step adds an entry exactly for the name whose service it has opened.
C16_RestartMerges ==
    [][call'.op = "Start" =>
          /\ DOMAIN service_data_map_ \subseteq DOMAIN service_data_map_'
          /\ \A k \in Names :
                 /\ (k \in DOMAIN service_data_map_'
                         /\ k \notin DOMAIN service_data_map_)
                        => RewritesEntry(k)
                 /\ RewritesEntry(k) => k \in DOMAIN service_data_map_']_vars

\* C16 witness: a second Start has returned; the registry holds the entry of
\* a name it did not process beside the entry of a name it opened.
C16_Witness ==
    /\ pc = "idle"
    /\ call.op = "Start"
    /\ ~call.fresh
    /\ OpenedNames # {}
    /\ \E k \in DOMAIN service_data_map_ : k \notin Range(service_list)

\* C17: no step of a Start changes the entry of a name absent from the
\* call's list, its handle included, or the registrations the OS holds for
\* that entry.
C17_UnspecifiedNamesUntouched ==
    [][call'.op = "Start" =>
          \A k \in DOMAIN service_data_map_ :
              k \notin Range(service_list') =>
                  /\ k \in DOMAIN service_data_map_'
                  /\ service_data_map_'[k] = service_data_map_[k]
                  /\ {r \in osRegs' : r.ctx = k}
                         = {r \in osRegs : r.ctx = k}]_vars

\* C17 witness: a second Start has returned that opened a service and did
\* not name an entry whose registration is still held and active.
C17_Witness ==
    /\ pc = "idle"
    /\ call.op = "Start"
    /\ call.no = 2
    /\ OpenedNames # {}
    /\ \E k \in DOMAIN service_data_map_ :
           /\ k \notin Range(service_list)
           /\ service_data_map_[k].registration # NULL
           /\ [handle |-> service_data_map_[k].registration, ctx |-> k]
                  \in osRegs

----------------------------------------------------------------------------
(* The order of Start's calls and the register wrapper, under Spec *)

InDatabase(name) == name \in scm_db

\* The names the loop of the Start in progress (or returned) has visited.
Visited == SubSeq(service_list, 1, idx - 1)

\* The names of the calls of the register wrapper, in order: each call
\* begins with LoadLibrary, right after the OpenService that succeeded.
RegisterAttempts ==
    LET loads == SelectSeq([i \in DOMAIN opLog |-> [at |-> i, e |-> opLog[i]]],
                           LAMBDA x : IsLoadLibrary(x.e))
    IN  [n \in DOMAIN loads |-> opLog[loads[n].at - 1].key]

\* C18: at every point of a Start that opened the SCM, the OpenService calls
\* made so far are the visited names in list order, the register wrapper has
\* been called for exactly the visited names that opened, in list order, and
\* every OpenService after the first comes after the previous name's wrapper
\* call has ended (its library released, or never loaded).
C18_ListOrder ==
    (call.op = "Start" /\ opLog[1].ok) =>
        /\ [i \in DOMAIN OpenEvents |-> OpenEvents[i].key] = Visited
        /\ \A i \in DOMAIN opLog :
               IsLoadLibrary(opLog[i]) =>
                   IsOpenService(opLog[i - 1]) /\ opLog[i - 1].ok
        /\ RegisterAttempts = SelectSeq(Visited, InDatabase)
        /\ \A i \in DOMAIN opLog :
               (IsOpenService(opLog[i]) /\ i > 2) =>
                   \/ IsOpenService(opLog[i - 1]) /\ ~opLog[i - 1].ok
                   \/ IsLoadLibrary(opLog[i - 1]) /\ ~opLog[i - 1].ok
                   \/ opLog[i - 1].api = "FreeLibrary"

\* C18 witness: Start has returned from a list of two different names, both
\* opened, the second opened after the first one's registration was made.
C18_Witness ==
    /\ pc = "idle"
    /\ call.op = "Start"
    /\ service_list = <<Beta, Alpha>>
    /\ RegisterAttempts = <<Beta, Alpha>>
    /\ \E i \in DOMAIN opLog :
           /\ IsOpenService(opLog[i]) /\ opLog[i].key = Alpha
           /\ opLog[i - 1].api = "FreeLibrary"
           /\ opLog[i - 2].api = "SubscribeServiceChangeNotifications"
           /\ opLog[i - 2].key = Beta

\* C19: during and after a Start, the entry of a name the call has opened,
\* whose handle is null because its registration failed, holds an error code
\* other than ERROR_SUCCESS.
C19_FailureRecorded ==
    call.op = "Start" =>
        \A k \in OpenedNames :
            service_data_map_[k].registration = NULL =>
                service_data_map_[k].system_error_code # ERROR_SUCCESS

\* The position in the log of the OpenService call made last.
LastOpenAt ==
    CHOOSE i \in DOMAIN opLog :
        /\ IsOpenService(opLog[i])
        /\ \A j \in DOMAIN opLog : j > i => ~IsOpenService(opLog[j])

DWORD_MINUS_ONE == -1

\* C21: the register wrapper called last in a Start returned the status of
\* the primitive when it called the primitive, and -1 when it did not (the
\* library not loaded or the symbol not resolved); Start stores what it
\* returned as the entry's error code.
C21_MinusOneBeforePrimitive ==
    (call.op = "Start" /\ OpenEvents # <<>> /\ opLog[LastOpenAt].ok) =>
        LET entry == service_data_map_[opLog[LastOpenAt].key]
            made == SubSeq(opLog, LastOpenAt + 1, Len(opLog))
        IN  IF \E i \in DOMAIN made : IsRegister(made[i])
            THEN \A i \in DOMAIN made :
                     IsRegister(made[i]) =>
                         entry.system_error_code = made[i].val
            ELSE entry.system_error_code = DWORD_MINUS_ONE

\* What the platform did during the register wrapper's last call, read back
\* from the OS calls that call made.
LastWrapperEnv ==
    LET made == SubSeq(opLog, LastOpenAt + 1, Len(opLog))
        load == made[1].ok
        sym == load /\ made[2].ok
    IN  [load |-> load,
         sym |-> sym,
         lastError |-> IF load THEN CHOOSE e \in LastErrors : TRUE
                       ELSE made[1].val,
         status |-> IF sym THEN made[3].val ELSE ERROR_SUCCESS]

\* C22: every entry holds its name in its name buffer, and its notification
\* buffer points at the registry's one context_ and at the entry's own name
\* buffer; and the entry of the name a Start opened last holds the handle
\* and the return value of the register wrapper's call for that name.
C22_EntryWiring ==
    /\ \A k \in DOMAIN service_data_map_ :
           /\ CStr(service_data_map_[k].service_name) = k
           /\ service_data_map_[k].notify_buffer.pContext = ContextPtr
           /\ service_data_map_[k].notify_buffer.pszServiceNames = k
    /\ (call.op = "Start" /\ OpenEvents # <<>> /\ opLog[LastOpenAt].ok) =>
           LET k == opLog[LastOpenAt].key
               entry == service_data_map_[k]
               result == SubscribeServiceChangeNotificationsWrapper(
                             k, LastWrapperEnv, entry.registration)
           IN  /\ k \in DOMAIN service_data_map_
               /\ entry.system_error_code = result.return_value
               /\ entry.registration = result.subscription
               /\ result.granted <=>
                      /\ entry.registration # NULL
                      /\ [handle |-> entry.registration, ctx |-> k] \in osRegs

\* C22 witness: a Start has processed two names; one entry holds a handle,
\* the other the primitive's error, and both are wired to context_.
C22_Witness ==
    /\ pc = "idle"
    /\ call.op = "Start"
    /\ DOMAIN service_data_map_ = {Alpha, Beta}
    /\ service_list = <<Alpha, Beta>>
    /\ service_data_map_[Alpha].registration # NULL
    /\ service_data_map_[Beta].registration = NULL
    /\ service_data_map_[Beta].system_error_code \in PrimitiveErrors
    /\ service_data_map_[Alpha].notify_buffer.pContext
           = service_data_map_[Beta].notify_buffer.pContext

----------------------------------------------------------------------------
(* The caller's thread and the OS thread, under SpecConcurrent *)

\* C14: no run of NotifyCallbackFunc reads released storage, and no step of
\* Stop removes an entry or changes an entry's name buffer or notification
\* buffer, or the context: Stop writes handles only.
C14_StopFreesNothing ==
    /\ [](lastDeliver.outcome # "undefined")
    /\ [][call'.op = "Stop" =>
            /\ DOMAIN service_data_map_' = DOMAIN service_data_map_
            /\ \A k \in DOMAIN service_data_map_ :
                   /\ service_data_map_'[k].service_name
                          = service_data_map_[k].service_name
                   /\ service_data_map_'[k].notify_buffer
                          = service_data_map_[k].notify_buffer
            /\ context_' = context_]_vars

\* C14 witness: Stop is in its loop and has cancelled the registration of
\* an entry for which NotifyCallbackFunc was entered and has still to run.
C14_Witness ==
    /\ pc = "stop"
    /\ lastDeliver.outcome = "running"
    /\ lastDeliver.ctx.key \notin remaining
    /\ service_data_map_[lastDeliver.ctx.key].registration = NULL
    /\ \A r \in osRegs : r.ctx # lastDeliver.ctx.key

\* The step in which a call of Start writes context_ (lines 94-95).
StartWritesContext == call'.no # call.no /\ call'.op = "Start"

\* C15: context_ is written by Start only, and by no Start that begins
\* while a registration of this registry is active or while
\* NotifyCallbackFunc has been entered and has still to read the context.
C15_ContextWrittenBeforeRegistration ==
    /\ [][context_' # context_ => StartWritesContext]_vars
    /\ [][StartWritesContext =>
            /\ osRegs = {}
            /\ lastDeliver.outcome # "running"]_vars

\* The step in which the OS enters NotifyCallbackFunc.
DeliverBegins ==
    lastDeliver.outcome # "running" /\ lastDeliver'.outcome = "running"

\* C26: after Stop has returned and before another call, no notification
\* the OS delivers reaches the action callback.
C26_NoCallbackAfterStop ==
    [][(pc = "idle" /\ call.op = "Stop" /\ DeliverBegins) =>
          NotifyCallbackFunc(lastDeliver'.dwNotify, lastDeliver'.ctx).calls
              = <<>>]_vars

----------------------------------------------------------------------------
(* The copy of the name, under SpecCopy *)

\* C27: whatever the length of a name, the copy of it stays within the
\* MAX_PATH + 1 characters of the entry's name buffer and leaves an L'\0'
\* in the buffer after it, the buffer read as a C string is the name that
\* was registered, and that is the string the callback receives.
C27_NameCopyInBounds ==
    /\ \A k \in DOMAIN service_data_map_ :
           LET buf == service_data_map_[k].service_name
           IN  /\ Len(buf) <= NameBufLen
               /\ \E i \in 1 .. NameBufLen : BufAt(buf, i) = 0
               /\ CStr(buf) = c_str(k)
    /\ lastDeliver.calls # <<>> =>
           lastDeliver.calls[1].service_name = c_str(lastDeliver.ctx.key)

====
